---- MODULE Spec2Model ----
(***************************************************************************)
(* File id maps of bzr-svn (fileids.py): the incremental projection of a  *)
(* Subversion branch history onto a map  path -> (file id, revision id),  *)
(* and the sqlite cache in front of it.                                   *)
(*                                                                         *)
(* Python strings are sequences of one-character strings, so that         *)
(* startswith, replace, split, join and sort are computed as Python       *)
(* computes them.  A Python dict is a TLA+ function; a tuple is a tuple;  *)
(* an optional value v is <<v>> and Python's None is <<>>.                 *)
(***************************************************************************)
EXTENDS Integers, Sequences, FiniteSets, TLC

VARIABLES
    scheme,     \* the branching scheme of the log walker (self._log.scheme)
    log,        \* the repository log: log[r] is revision r
    cachedb,    \* the rows of table filemap, in insertion order
    call,       \* the last get_map call: its arguments and its outcome
    map,        \* FoldSpec: the file id map the caller folds changes into
    tree,       \* FoldSpec: tree[r + 1] is the set of paths alive at revision r
    step,       \* FoldSpec: the last _apply_changes call and its outcome
    callers,    \* SharedSpec: the get_map calls under way on one cache
    saved,      \* CacheSpec: the save and load calls made so far
    ra,         \* RaSpec: a RemoteAccess and the editors obtained from it
    upgrade     \* UpgradeSpec: an upgrade_repository call and the two locks

vars == <<scheme, log, cachedb, call, map, tree, step, callers, saved, ra,
          upgrade>>

---------------------------------------------------------------------------
(* Python strings *)

None == <<>>

Some(v) == <<v>>

\* ord(c) of the characters the model uses; Python compares strings by it.
Ord(c) ==
    CASE c = "%" -> 37
      [] c = "-" -> 45
      [] c = "/" -> 47
      [] c = "0" -> 48
      [] c = "1" -> 49
      [] c = "2" -> 50
      [] c = "3" -> 51
      [] c = "4" -> 52
      [] c = "5" -> 53
      [] c = "6" -> 54
      [] c = "7" -> 55
      [] c = "8" -> 56
      [] c = "9" -> 57
      [] c = ":" -> 58
      [] c = "@" -> 64
      [] c = "U" -> 85
      [] c = "a" -> 97
      [] c = "b" -> 98
      [] c = "d" -> 100
      [] c = "f" -> 102
      [] c = "l" -> 108
      [] c = "n" -> 110
      [] c = "s" -> 115
      [] c = "t" -> 116
      [] c = "u" -> 117
      [] c = "v" -> 118
      [] c = "x" -> 120

\* s < t for Python strings
StrLess(s, t) ==
    \E i \in 1..(Len(t)) :
        /\ \A j \in 1..(i - 1) : j <= Len(s) /\ s[j] = t[j]
        /\ \/ i = Len(s) + 1
           \/ i <= Len(s) /\ Ord(s[i]) < Ord(t[i])

\* s.startswith(pre)
StartsWith(s, pre) ==
    Len(pre) <= Len(s) /\ SubSeq(s, 1, Len(pre)) = pre

\* s.endswith(suf)
EndsWith(s, suf) ==
    Len(suf) <= Len(s) /\ SubSeq(s, Len(s) - Len(suf) + 1, Len(s)) = suf

\* s.find(sub) + 1: the 1-based place of the first occurrence, 0 when none
Find(s, sub) ==
    LET hits == {i \in 1..(Len(s) - Len(sub) + 1) :
                    SubSeq(s, i, i + Len(sub) - 1) = sub}
    IN  IF hits = {} THEN 0 ELSE CHOOSE i \in hits : \A j \in hits : i <= j

\* s.rfind(sub) + 1
RFind(s, sub) ==
    LET hits == {i \in 1..(Len(s) - Len(sub) + 1) :
                    SubSeq(s, i, i + Len(sub) - 1) = sub}
    IN  IF hits = {} THEN 0 ELSE CHOOSE i \in hits : \A j \in hits : j <= i

\* s.replace(old, new, 1): the first occurrence only; an empty old matches
\* at the start of s
Replace1(s, old, new) ==
    LET i == Find(s, old)
    IN  IF i = 0 THEN s
        ELSE SubSeq(s, 1, i - 1) \o new \o SubSeq(s, i + Len(old), Len(s))

\* s.strip("/")
RECURSIVE StripSlash(_)
StripSlash(s) ==
    IF s # <<>> /\ Head(s) = "/" THEN StripSlash(Tail(s))
    ELSE IF s # <<>> /\ s[Len(s)] = "/" THEN StripSlash(SubSeq(s, 1, Len(s) - 1))
    ELSE s

\* s.split("/"): never empty, "" splits into [""]
RECURSIVE Split(_)
Split(s) ==
    LET i == Find(s, <<"/">>)
    IN  IF i = 0 THEN <<s>>
        ELSE <<SubSeq(s, 1, i - 1)>> \o Split(SubSeq(s, i + 1, Len(s)))

\* "/".join(parts)
RECURSIVE Join(_)
Join(parts) ==
    IF parts = <<>> THEN <<>>
    ELSE IF Len(parts) = 1 THEN parts[1]
    ELSE parts[1] \o <<"/">> \o Join(Tail(parts))

\* keys.sort(): the keys of S in ascending order
RECURSIVE Sorted(_)
Sorted(S) ==
    IF S = {} THEN <<>>
    ELSE LET least == CHOOSE s \in S : \A t \in S : t = s \/ StrLess(s, t)
         IN  <<least>> \o Sorted(S \ {least})

\* "%d" % n for the numbers the model reaches
Dec(n) == <<<<"0">>, <<"1">>, <<"2">>, <<"3">>, <<"4">>, <<"5">>, <<"6">>,
            <<"7">>, <<"8">>, <<"9">>>>[n + 1]

\* int(s) for one digit
ParseInt(s) == CHOOSE n \in 0..9 : Dec(n) = s

---------------------------------------------------------------------------
(* Identifiers: repository.py's codec and fileids.py's file ids *)

MAPPING_VERSION == 3

\* bzrlib.revision.NULL_REVISION, "null:"
NULL_REVISION == <<"n", "u", "l", "l", ":">>

\* the UUID of the one repository of the model
Uuid == <<"U">>

\* escape_svn_path: "%", "/" and "-" become "%25", "%2f" and "%2d"
RECURSIVE escape_svn_path(_)
escape_svn_path(s) ==
    IF s = <<>> THEN <<>>
    ELSE (CASE Head(s) = "%" -> <<"%", "2", "5">>
            [] Head(s) = "/" -> <<"%", "2", "f">>
            [] Head(s) = "-" -> <<"%", "2", "d">>
            [] OTHER -> <<Head(s)>>) \o escape_svn_path(Tail(s))

\* unescape_svn_path, the inverse
RECURSIVE unescape_svn_path(_)
unescape_svn_path(s) ==
    IF s = <<>> THEN <<>>
    ELSE IF Head(s) = "%"
    THEN (CASE SubSeq(s, 2, 3) = <<"2", "5">> -> <<"%">>
            [] SubSeq(s, 2, 3) = <<"2", "f">> -> <<"/">>
            [] SubSeq(s, 2, 3) = <<"2", "d">> -> <<"-">>)
         \o unescape_svn_path(SubSeq(s, 4, Len(s)))
    ELSE <<Head(s)>> \o unescape_svn_path(Tail(s))

\* "svn-v%d:" % MAPPING_VERSION
REVISION_ID_PREFIX == <<"s", "v", "n", "-", "v">> \o Dec(MAPPING_VERSION) \o <<":">>

\* generate_svn_revision_id(uuid, revnum, path):
\* "svn-v3:<revnum>@<uuid>-<escaped branch path>"
generate_svn_revision_id(uuid, revnum, path) ==
    REVISION_ID_PREFIX \o Dec(revnum) \o <<"@">> \o uuid \o <<"-">>
        \o escape_svn_path(StripSlash(path))

\* parse_svn_revision_id(revid) = (uuid, branch path, revnum)
parse_svn_revision_id(revid) ==
    LET rest == SubSeq(revid, Len(REVISION_ID_PREFIX) + 1, Len(revid))
        at   == Find(rest, <<"@">>)
        fash == RFind(rest, <<"-">>)
    IN  <<SubSeq(rest, at + 1, fash - 1),
          unescape_svn_path(SubSeq(rest, fash + 1, Len(rest))),
          ParseInt(SubSeq(rest, 1, at - 1))>>

\* fileids.py: generate_svn_file_id
generate_svn_file_id(uuid, revnum, branch, path) ==
    <<"s", "v", "n", "-", "v">> \o Dec(MAPPING_VERSION) \o <<":">> \o Dec(revnum)
        \o <<"@">> \o uuid \o <<"-">> \o escape_svn_path(branch)
        \o <<"-">> \o escape_svn_path(path)

\* generate_file_id gone wrong: the revision number is left out of the id
generate_file_id_without_revnum(revid, path) ==
    LET parsed == parse_svn_revision_id(revid)
    IN  generate_svn_file_id(parsed[1], 0, parsed[2], path)

\* fileids.py: generate_file_id
generate_file_id(revid, path) ==
    LET parsed == parse_svn_revision_id(revid)
    IN  generate_svn_file_id(parsed[1], parsed[3], parsed[2], path)

---------------------------------------------------------------------------
(* SimpleFileIdMap._apply_changes *)

\* A file id map is a function from paths to <<file id, revision id>>.
\* A change is data = <<action, copy source path, copy source revision>>,
\* the last two optional.  The outcome of a call is the map as the call
\* left it (the dict is changed in place) and the assertion that failed.

EmptyMap == [c \in {} |-> <<>>]

\* map[k] = v
Put(m, k, v) == [c \in DOMAIN m \cup {k} |-> IF c = k THEN v ELSE m[c]]

Ok(m) == [ok |-> TRUE, map |-> m, error |-> "none"]

Failed(m, what) == [ok |-> FALSE, map |-> m, error |-> what]

\* new_file_id gone wrong: the rename overrides are not looked at
new_file_id_generated(revid, renames, path) == generate_file_id(revid, path)

\* new_file_id(path) within _apply_changes(.., revid, .., renames)
new_file_id(revid, renames, path) ==
    IF path \in DOMAIN renames THEN renames[path]
    ELSE generate_file_id(revid, path)

\* the delete gone wrong: the children of p are kept
DeleteEntryOnly(m, p) == [c \in DOMAIN m \ {p} |-> m[c]]

\* the delete gone wrong: every key that starts with p goes
DeleteStartingWith(m, p) ==
    [c \in {c \in DOMAIN m : ~StartsWith(c, p)} |-> m[c]]

\* del map[p], and del map[c] for every key c that starts with p + "/"
DeleteWithChildren(m, p) ==
    [c \in {c \in DOMAIN m : c # p /\ ~StartsWith(c, p \o <<"/">>)} |-> m[c]]

\* the copy gone wrong: the children are registered under their source paths
RECURSIVE CopyChildrenUnmoved(_, _, _, _, _, _)
CopyChildrenUnmoved(m, revid, p, src, children, renames) ==
    IF children = <<>> THEN m
    ELSE CopyChildrenUnmoved(Put(m, Head(children),
                                 <<new_file_id(revid, renames, Head(children)), revid>>),
                             revid, p, src, Tail(children), renames)

\* for c in find_children(src, ..): map[c.replace(src, p, 1)] = new_file_id(c), revid
RECURSIVE CopyChildren(_, _, _, _, _, _)
CopyChildren(m, revid, p, src, children, renames) ==
    IF children = <<>> THEN m
    ELSE CopyChildren(Put(m, Replace1(Head(children), src, p),
                          <<new_file_id(revid, renames, Head(children)), revid>>),
                      revid, p, src, Tail(children), renames)

\* the parent loop gone wrong: a missing parent is skipped
RECURSIVE TouchParentsUnchecked(_, _, _, _)
TouchParentsUnchecked(m, revid, parts, i) ==
    IF i > Len(parts) - 1 THEN Ok(m)
    ELSE LET parent == Join(SubSeq(parts, 1, Len(parts) - i))
         IN  IF parent \notin DOMAIN m
             THEN TouchParentsUnchecked(m, revid, parts, i + 1)
             ELSE IF m[parent][2] = revid THEN Ok(m)
             ELSE TouchParentsUnchecked(Put(m, parent, <<m[parent][1], revid>>),
                                        revid, parts, i + 1)

\* the parent loop gone wrong: the parents are checked and left as they were
RECURSIVE TouchParentsUntouched(_, _, _, _)
TouchParentsUntouched(m, revid, parts, i) ==
    IF i > Len(parts) - 1 THEN Ok(m)
    ELSE LET parent == Join(SubSeq(parts, 1, Len(parts) - i))
         IN  IF parent \notin DOMAIN m THEN Failed(m, "parent")
             ELSE TouchParentsUntouched(m, revid, parts, i + 1)

\* the parent loop gone wrong: it stops after the nearest parent
TouchParentsNearest(m, revid, parts, i) ==
    IF Len(parts) < 2 THEN Ok(m)
    ELSE LET parent == Join(SubSeq(parts, 1, Len(parts) - 1))
         IN  IF parent \notin DOMAIN m THEN Failed(m, "parent")
             ELSE Ok(Put(m, parent, <<m[parent][1], revid>>))

\* the loop that marks all parent paths of p as changed, from its i-th turn
RECURSIVE TouchParents(_, _, _, _)
TouchParents(m, revid, parts, i) ==
    IF i > Len(parts) - 1 THEN Ok(m)
    ELSE LET parent == Join(SubSeq(parts, 1, Len(parts) - i))
         IN  IF parent \notin DOMAIN m THEN Failed(m, "parent")
             ELSE IF m[parent][2] = revid THEN Ok(m)
             ELSE TouchParents(Put(m, parent, <<m[parent][1], revid>>),
                               revid, parts, i + 1)

\* the turn gone wrong: a modified path that is missing is passed over
ApplyPathModifyUnchecked(m, revid, p, data, find_children, renames) ==
    IF data[1] \in {"D", "R"} /\ p \notin DOMAIN m THEN Failed(m, "delete")
    ELSE
    LET m1 == IF data[1] \in {"D", "R"} THEN DeleteWithChildren(m, p) ELSE m
    IN  IF data[1] \in {"A", "R"}
        THEN LET m2 == Put(m1, p, <<new_file_id(revid, renames, p), revid>>)
                 m3 == IF data[2] # None /\ find_children # None
                       THEN CopyChildren(m2, revid, p, data[2][1],
                                find_children[1][<<data[2][1], data[3][1]>>],
                                renames)
                       ELSE m2
             IN  TouchParents(m3, revid, Split(p), 1)
        ELSE IF data[1] = "M"
        THEN IF p \notin DOMAIN m1 THEN TouchParents(m1, revid, Split(p), 1)
             ELSE TouchParents(Put(m1, p, <<m1[p][1], revid>>), revid, Split(p), 1)
        ELSE TouchParents(m1, revid, Split(p), 1)

\* the turn gone wrong: a modified path is given a new file id
ApplyPathModifyNewId(m, revid, p, data, find_children, renames) ==
    IF data[1] \in {"D", "R"} /\ p \notin DOMAIN m THEN Failed(m, "delete")
    ELSE
    LET m1 == IF data[1] \in {"D", "R"} THEN DeleteWithChildren(m, p) ELSE m
    IN  IF data[1] \in {"A", "R"}
        THEN LET m2 == Put(m1, p, <<new_file_id(revid, renames, p), revid>>)
                 m3 == IF data[2] # None /\ find_children # None
                       THEN CopyChildren(m2, revid, p, data[2][1],
                                find_children[1][<<data[2][1], data[3][1]>>],
                                renames)
                       ELSE m2
             IN  TouchParents(m3, revid, Split(p), 1)
        ELSE IF data[1] = "M"
        THEN IF p \notin DOMAIN m1 THEN Failed(m1, "modify")
             ELSE TouchParents(Put(m1, p, <<new_file_id(revid, renames, p), revid>>),
                               revid, Split(p), 1)
        ELSE TouchParents(m1, revid, Split(p), 1)

\* the turn gone wrong: a copy without a child finder fails
ApplyPathNeedsFinder(m, revid, p, data, find_children, renames) ==
    IF data[1] \in {"D", "R"} /\ p \notin DOMAIN m THEN Failed(m, "delete")
    ELSE
    LET m1 == IF data[1] \in {"D", "R"} THEN DeleteWithChildren(m, p) ELSE m
    IN  IF data[1] \in {"A", "R"}
        THEN LET m2 == Put(m1, p, <<new_file_id(revid, renames, p), revid>>)
                 m3 == IF data[2] # None /\ find_children # None
                       THEN CopyChildren(m2, revid, p, data[2][1],
                                find_children[1][<<data[2][1], data[3][1]>>],
                                renames)
                       ELSE m2
             IN  IF data[2] # None /\ find_children = None
                 THEN Failed(m2, "finder")
                 ELSE TouchParents(m3, revid, Split(p), 1)
        ELSE IF data[1] = "M"
        THEN IF p \notin DOMAIN m1 THEN Failed(m1, "modify")
             ELSE TouchParents(Put(m1, p, <<m1[p][1], revid>>), revid, Split(p), 1)
        ELSE TouchParents(m1, revid, Split(p), 1)

\* one turn of the loop over sorted_paths
ApplyPath(m, revid, p, data, find_children, renames) ==
    IF data[1] \in {"D", "R"} /\ p \notin DOMAIN m THEN Failed(m, "delete")
    ELSE
    LET m1 == IF data[1] \in {"D", "R"} THEN DeleteWithChildren(m, p) ELSE m
    IN  IF data[1] \in {"A", "R"}
        THEN LET m2 == Put(m1, p, <<new_file_id(revid, renames, p), revid>>)
                 m3 == IF data[2] # None /\ find_children # None
                       THEN CopyChildren(m2, revid, p, data[2][1],
                                find_children[1][<<data[2][1], data[3][1]>>],
                                renames)
                       ELSE m2
             IN  TouchParents(m3, revid, Split(p), 1)
        ELSE IF data[1] = "M"
        THEN IF p \notin DOMAIN m1 THEN Failed(m1, "modify")
             ELSE TouchParents(Put(m1, p, <<m1[p][1], revid>>), revid, Split(p), 1)
        ELSE TouchParents(m1, revid, Split(p), 1)

\* the loop over sorted_paths, from its first path on
RECURSIVE ApplyPaths(_, _, _, _, _, _)
ApplyPaths(m, revid, changes, sorted_paths, find_children, renames) ==
    IF sorted_paths = <<>> THEN Ok(m)
    ELSE LET r == ApplyPath(m, revid, Head(sorted_paths),
                            changes[Head(sorted_paths)], find_children, renames)
         IN  IF ~r.ok THEN r
             ELSE ApplyPaths(r.map, revid, changes, Tail(sorted_paths),
                             find_children, renames)

_apply_changes(m, revid, changes, find_children, renames) ==
    ApplyPaths(m, revid, changes, Sorted(DOMAIN changes), find_children, renames)

\* The paths for which the loop over sorted_paths calls
\* warn('incomplete data for %r' % p): the added or replaced paths with a
\* copy source that it handles while find_children is None.
RECURSIVE warned(_, _, _, _, _, _)
warned(m, revid, changes, sorted_paths, find_children, renames) ==
    IF sorted_paths = <<>> THEN <<>>
    ELSE LET p    == Head(sorted_paths)
             data == changes[p]
             r    == ApplyPath(m, revid, p, data, find_children, renames)
         IN  (IF /\ data[1] \in {"A", "R"}
                 /\ ~(data[1] = "R" /\ p \notin DOMAIN m)
                 /\ data[2] # None
                 /\ find_children = None
              THEN <<p>> ELSE <<>>)
             \o (IF r.ok
                 THEN warned(r.map, revid, changes, Tail(sorted_paths),
                             find_children, renames)
                 ELSE <<>>)

---------------------------------------------------------------------------
(* The collaborators: the branching scheme and the log walker *)

\* The two schemes of the model: "none" (the repository root is the one
\* branch) and "single" (every top-level directory is a branch).

\* scheme.is_branch(path)
is_branch(sch, path) ==
    IF sch = "none" THEN StripSlash(path) = <<>>
    ELSE StripSlash(path) # <<>> /\ Len(Split(StripSlash(path))) = 1

\* scheme.unprefix(path) = (branch path, path inside the branch)
unprefix(sch, path) ==
    IF sch = "none" THEN <<<<>>, StripSlash(path)>>
    ELSE LET parts == Split(StripSlash(path))
         IN  <<parts[1], Join(Tail(parts))>>

\* the paths of T below path
Descendants(T, path) ==
    {c \in T : c # path /\ (path = <<>> \/ StartsWith(c, path \o <<"/">>))}

\* path and the directories above it, the repository root included
RECURSIVE WithAncestors(_)
WithAncestors(path) ==
    IF path = <<>> THEN {<<>>}
    ELSE {path} \cup WithAncestors(Join(SubSeq(Split(path), 1, Len(Split(path)) - 1)))

\* The tree of the repository after one changed path of a revision: a delete
\* removes the path and what is below it, an add creates the path (under
\* its directories) and, for a copy, what was below the source at the source
\* revision.  trees[r + 1] is the tree at revision r.
SvnApplyPath(T, trees, p, data) ==
    LET T1 == IF data[1] \in {"D", "R"} THEN T \ ({p} \cup Descendants(T, p)) ELSE T
        copied == IF data[2] = None THEN {}
                  ELSE {p \o <<"/">> \o
                            StripSlash(SubSeq(c, Len(data[2][1]) + 1, Len(c))) :
                            c \in Descendants(trees[data[3][1] + 1], data[2][1])}
    IN  IF data[1] \in {"A", "R"}
        THEN T1 \cup WithAncestors(p) \cup {StripSlash(c) : c \in copied}
        ELSE T1 \cup {<<>>}

RECURSIVE SvnApplyPaths(_, _, _, _)
SvnApplyPaths(T, trees, paths, sorted_paths) ==
    IF sorted_paths = <<>> THEN T
    ELSE SvnApplyPaths(SvnApplyPath(T, trees, Head(sorted_paths),
                                    paths[Head(sorted_paths)]),
                       trees, paths, Tail(sorted_paths))

\* the tree after a revision that changes paths
SvnCommit(trees, paths) ==
    SvnApplyPaths(trees[Len(trees)], trees, paths, Sorted(DOMAIN paths))

\* self._log.find_children(path, revnum): the paths below path at revnum
log_find_children(trees, path, revnum) ==
    Sorted(Descendants(trees[revnum + 1], StripSlash(path)))

---------------------------------------------------------------------------
(* get_local_changes and FileIdMap.apply_changes *)

\* the body gone wrong: a copy of the branch root keeps its action and source
local_change_keeping_copy(paths, sch, uuid, p) ==
    LET data == paths[p]
    IN  IF data[2] # None
        THEN <<data[1], Some(unprefix(sch, data[2][1])[2]),
               Some(generate_svn_revision_id(uuid, data[3][1],
                                             unprefix(sch, data[2][1])[1]))>>
        ELSE data

\* the body of the loop of get_local_changes for the global path p
local_change(paths, sch, uuid, p) ==
    LET data  == paths[p]
        new_p == unprefix(sch, p)[2]
    IN  IF data[2] # None
        THEN LET cbp == unprefix(sch, data[2][1])[1]
                 crp == unprefix(sch, data[2][1])[2]
             IN  IF crp = <<>> /\ new_p = <<>>
                 THEN <<"M", None, None>>
                 ELSE <<data[1], Some(crp),
                        Some(generate_svn_revision_id(uuid, data[3][1], cbp))>>
        ELSE data

RECURSIVE local_changes_from(_, _, _, _, _)
local_changes_from(new_paths, paths, sch, uuid, names) ==
    IF names = <<>> THEN new_paths
    ELSE local_changes_from(
            Put(new_paths, unprefix(sch, Head(names))[2],
                local_change(paths, sch, uuid, Head(names))),
            paths, sch, uuid, Tail(names))

get_local_changes(paths, sch, uuid) ==
    local_changes_from(EmptyMap, paths, sch, uuid, Sorted(DOMAIN paths))

\* The closure find_children(path, revid) of apply_changes and get_map, as
\* the function it computes over the copy sources of changes.
find_children(sch, trees, changes) ==
    Some([src \in {<<changes[p][2][1], changes[p][3][1]>> :
                      p \in {q \in DOMAIN changes : changes[q][2] # None}} |->
            LET bp     == parse_svn_revision_id(src[2])[2]
                revnum == parse_svn_revision_id(src[2])[3]
                found  == log_find_children(trees, bp \o <<"/">> \o src[1], revnum)
            IN  [i \in 1..Len(found) |-> unprefix(sch, found[i])[2]]])

\* FileIdMap.apply_changes(uuid, revnum, branch, global_changes, map, renames)
apply_changes(sch, trees, uuid, revnum, branch, global_changes, m, renames) ==
    LET changes == get_local_changes(global_changes, sch, uuid)
        revid   == generate_svn_revision_id(uuid, revnum, branch)
    IN  _apply_changes(m, revid, changes, find_children(sch, trees, changes), renames)

---------------------------------------------------------------------------
(* Inputs *)

\* the revisions a fold goes through
MaxFold == 3

\* the paths inside a branch that revisions change: "", "a", "a/x", "b"
LocalPaths == {<<>>, <<"a">>, <<"a", "/", "x">>, <<"b">>}

\* the paths inside a branch that copies are taken from: "", "a"
CopySources == {<<>>, <<"a">>}

\* the branch the changes happen in
BranchOf(sch) == IF sch = "none" THEN <<>> ELSE <<"t">>

\* the path of the repository for path p of branch bp
Global(bp, p) == StripSlash(bp \o <<"/">> \o p)

\* a change without a copy source
PlainData == {<<a, None, None>> : a \in {"A", "D", "R", "M"}}

\* The root of the repository can be neither added, deleted nor replaced,
\* a branch below it can.
Changeable(sch, p, data) == sch = "none" /\ p = <<>> => data[1] = "M"

\* the changes without a copy source that a revision may make to path p
DataOf(sch, p) == {e \in PlainData : Changeable(sch, p, e)}

\* The copies of revision n in branch bp: "a" copied to "b" from any earlier
\* revision, and from the revision before it the branch copied to "b" and
\* the branch replaced by a copy of itself.
Copies(sch, bp, n) ==
    {(Global(bp, <<"b">>) :> <<a, Some(Global(bp, <<"a">>)), Some(r)>>) :
        a \in {"A", "R"}, r \in 1..(n - 1)}
    \cup {(Global(bp, <<"b">>) :> <<"A", Some(bp), Some(r)>>) :
            r \in {n - 1} \ {0}}
    \cup {(bp :> <<"R", Some(bp), Some(r)>>) :
            r \in IF sch = "none" THEN {} ELSE {n - 1} \ {0}}

\* the changed paths of revision n in branch bp: one changed path, a copy,
\* or "a" and "a/x" changed together
ChangeSetsIn(sch, bp, n) ==
    UNION {{(Global(bp, p) :> d) : d \in DataOf(sch, p)} : p \in LocalPaths}
    \cup Copies(sch, bp, n)
    \cup {(Global(bp, <<"a">>) :> d) @@ (Global(bp, <<"a", "/", "x">>) :> e) :
            d \in PlainData, e \in PlainData}

ChangeSets(sch, n) == ChangeSetsIn(sch, BranchOf(sch), n)

\* a file id that no revision of the repository generates
ForeignId == <<"f">>

\* a foreign file id of digits only
NumericId == <<"0", "7">>

\* The rename overrides of a revision that changes paths: none, or "b" or
\* "a/x", when the revision adds or replaces "b", given a foreign file id
\* or the file id "a" carries in m.
RenameSets(sch, m, paths) ==
    LET b == Global(BranchOf(sch), <<"b">>)
    IN  {EmptyMap}
        \cup IF b \in DOMAIN paths /\ paths[b][1] \in {"A", "R"}
             THEN {(p :> i) :
                      p \in {<<"b">>, <<"a", "/", "x">>},
                      i \in {ForeignId} \cup {m[q][1] : q \in DOMAIN m \cap {<<"a">>}}}
             ELSE {}

---------------------------------------------------------------------------
(* FoldSpec: a caller folds the changes of revisions 1, 2, ... of a branch
   into a file id map with FileIdMap.apply_changes *)

\* the map get_map starts from when no revision of the history is cached
genesis(sch, uuid) ==
    IF is_branch(sch, <<>>)
    THEN (<<>> :> <<generate_svn_file_id(uuid, 0, <<>>, <<>>), NULL_REVISION>>)
    ELSE EmptyMap

NoStep ==
    [n |-> 0, revid |-> None, pre |-> EmptyMap, paths |-> EmptyMap,
     changes |-> EmptyMap, renames |-> EmptyMap, ok |-> TRUE, error |-> "none",
     seen |-> {}, degraded |-> FALSE]

NoCall ==
    [done |-> FALSE, revnum |-> 0, branch |-> None, ok |-> TRUE, map |-> EmptyMap,
     from |-> <<>>, folded |-> 0]

FoldInit ==
    /\ scheme \in {"none", "single"}
    /\ map = genesis(scheme, Uuid)
    /\ tree = <<{<<>>}>>
    /\ step = NoStep
    /\ log = <<>>
    /\ cachedb = <<>>
    /\ call = NoCall
    /\ callers = <<>>
    /\ saved = <<>>
    /\ ra = <<>>
    /\ upgrade = <<>>

\* apply_changes for the next revision; a failed call ends the fold.
\* step.seen remembers every <<path, file id>> of the maps before the call.
FoldOutcome(n, bp, paths, renames, r) ==
    /\ map' = r.map
    /\ step' = [n |-> n,
                revid |-> generate_svn_revision_id(Uuid, n, bp),
                pre |-> map,
                paths |-> paths,
                changes |-> get_local_changes(paths, scheme, Uuid),
                renames |-> renames,
                ok |-> r.ok,
                error |-> r.error,
                seen |-> step.seen \cup {<<c, map[c][1]>> : c \in DOMAIN map},
                degraded |-> FALSE]

Fold(paths, renames) ==
    /\ step.ok
    /\ step.n < MaxFold
    /\ FoldOutcome(step.n + 1, BranchOf(scheme), paths, renames,
                   apply_changes(scheme, tree, Uuid, step.n + 1, BranchOf(scheme),
                                 paths, map, renames))
    /\ tree' = Append(tree, SvnCommit(tree, paths))
    /\ UNCHANGED <<scheme, log, cachedb, call, callers, saved, ra, upgrade>>

FoldNext ==
    /\ step.ok
    /\ step.n < MaxFold
    /\ \E paths \in ChangeSets(scheme, step.n + 1) :
          \E renames \in RenameSets(scheme, map, paths) : Fold(paths, renames)

FoldSpec == FoldInit /\ [][FoldNext]_vars

---------------------------------------------------------------------------
(* Properties of one _apply_changes call, stated on the last call of FoldSpec:
   step.pre is the map before it, map the map after it *)

\* the directories above p inside the branch: the proper prefixes of p that
\* end where p has a "/"
AncestorDirs(p) == {SubSeq(p, 1, i - 1) : i \in {j \in 1..Len(p) : p[j] = "/"}}

\* the paths of the last call in the order it handled them
StepPaths == Sorted(DOMAIN step.changes)

StepFinder == find_children(scheme, SubSeq(tree, 1, step.n), step.changes)

\* the keys the copy of change p wrote for the children of its source
CopiedTo(p) ==
    IF step.changes[p][1] \in {"A", "R"} /\ step.changes[p][2] # None
    THEN LET src   == step.changes[p][2][1]
             found == StepFinder[1][<<src, step.changes[p][3][1]>>]
         IN  {Replace1(found[i], src, p) : i \in 1..Len(found)}
    ELSE {}

\* the children the child finder returned for the copy source of change p
CopySourceChildren(p) ==
    LET found == StepFinder[1][<<step.changes[p][2][1], step.changes[p][3][1]>>]
    IN  {found[i] : i \in 1..Len(found)}

\* C3: after a successful call whose changes delete p and add or replace
\* nothing below p, the map has neither the key p nor a key that starts
\* with p + "/".
PrefixDeletion ==
    step.ok =>
        \A p \in DOMAIN step.changes :
            /\ step.changes[p][1] = "D"
            /\ \A q \in DOMAIN step.changes :
                  step.changes[q][1] \in {"A", "R"} =>
                      ~StartsWith(q, p \o <<"/">>)
            => \A c \in DOMAIN map : c # p /\ ~StartsWith(c, p \o <<"/">>)

\* a successful call deleted a path that had entries below it
PrefixDeletionWitness ==
    /\ step.ok
    /\ \E p \in DOMAIN step.changes :
          /\ step.changes[p][1] = "D"
          /\ \E c \in DOMAIN step.pre : StartsWith(c, p \o <<"/">>)

\* The last call folded Add(dst, copyFrom = (src, r)) alone at revision r + 1,
\* the map of revision r has src, and the child finder returned the keys
\* the map has below src.
IsCopyOf(dst, src) ==
    /\ step.ok
    /\ DOMAIN step.changes = {dst}
    /\ step.changes[dst][1] = "A"
    /\ step.changes[dst][2] = Some(src)
    /\ parse_svn_revision_id(step.changes[dst][3][1])[3] = step.n - 1
    /\ src \in DOMAIN step.pre
    /\ LET found == StepFinder[1][<<src, step.changes[dst][3][1]>>]
       IN  {found[i] : i \in 1..Len(found)}
               = {c \in DOMAIN step.pre : StartsWith(c, src \o <<"/">>)}

\* dst and every dst/x are present, last touched at the call's revision and
\* with identifiers other than those of src and src/x, which stay present.
CopyArrived(dst, src) ==
    /\ dst \in DOMAIN map
    /\ map[dst][2] = step.revid
    /\ map[dst][1] # step.pre[src][1]
    /\ src \in DOMAIN map
    /\ \A c \in {k \in DOMAIN step.pre : StartsWith(k, src \o <<"/">>)} :
          LET d == dst \o SubSeq(c, Len(src) + 1, Len(c))
          IN  /\ d \in DOMAIN map
              /\ map[d][2] = step.revid
              /\ map[d][1] # step.pre[c][1]
              /\ map[d][1] # step.pre[src][1]
              /\ c \in DOMAIN map

PlacedAt(dst, src, c) ==
    IF c = src THEN dst
    ELSE IF src = <<>> THEN StripSlash(dst \o <<"/">> \o c)
    ELSE StripSlash(dst \o <<"/">> \o SubSeq(c, Len(src) + 2, Len(c)))

\* C24: after a successful call that copies src to p and changes nothing
\* else, every child c the child finder returned for src is registered at p
\* joined by "/" to what c has below src, also for the branch root as src,
\* with the rename override of that path or else the file id generated for
\* that path at the call's revision.
CopiedChildPlacement ==
    step.ok =>
        \A p \in DOMAIN step.changes :
            /\ DOMAIN step.changes = {p}
            /\ step.changes[p][1] \in {"A", "R"}
            /\ step.changes[p][2] # None
            => \A c \in CopySourceChildren(p) :
                  /\ PlacedAt(p, step.changes[p][2][1], c) \in DOMAIN map
                  /\ map[PlacedAt(p, step.changes[p][2][1], c)] =
                        <<new_file_id(step.revid, step.renames,
                                      PlacedAt(p, step.changes[p][2][1], c)),
                          step.revid>>

\* C26: after a successful call that only deletes the branch root the map is
\* empty, and after one that only replaces it, without a copy source, the
\* map has the new root entry and nothing else.
RootDeletionCascades ==
    step.ok /\ DOMAIN step.changes = {<<>>} =>
        /\ step.changes[<<>>][1] = "D" => map = EmptyMap
        /\ step.changes[<<>>][1] = "R" /\ step.changes[<<>>][2] = None =>
              map = (<<>> :> <<new_file_id(step.revid, step.renames, <<>>),
                               step.revid>>)

\* C27: after a successful call at revision id R that changes a path other
\* than the branch root, the entry of the branch root, when the map has one,
\* was last touched at R.
RootTouch ==
    /\ step.ok
    /\ \E p \in DOMAIN step.changes : p # <<>>
    /\ <<>> \in DOMAIN map
    => map[<<>>][2] = step.revid

\* C28: a call that fails an assertion leaves the map it was given as it was
\* before the call.
FoldStepAtomicity == ~step.ok => map = step.pre

\* C6: in the map of every successful call, and in the map folding starts
\* from, the directory of every key that has one is a key.
ParentClosure ==
    step.ok => \A c \in DOMAIN map : AncestorDirs(c) \subseteq DOMAIN map

\* a successful call registered copied children below a destination
ParentClosureWitness ==
    /\ step.ok
    /\ \E p \in DOMAIN step.changes :
          \E c \in CopiedTo(p) : c \in DOMAIN map /\ AncestorDirs(c) # {}

\* the outcome of the last call's loop just before it handles its k-th path
BeforePath(k) ==
    ApplyPaths(step.pre, step.revid, step.changes, SubSeq(StepPaths, 1, k - 1),
               StepFinder, step.renames)

\* The k-th path of the last call is one the call must fail on: a deleted,
\* replaced or modified path that the map does not have when the path is
\* handled, or a path with a directory above it that the map does not have.
MustFail(k) ==
    LET m == BeforePath(k).map
        p == StepPaths[k]
    IN  \/ step.changes[p][1] \in {"D", "R", "M"} /\ p \notin DOMAIN m
        \/ \E d \in AncestorDirs(p) : d \notin DOMAIN m

\* C7: a call fails exactly when it comes to handle such a path.
ConsistencyErrors ==
    step.n > 0 =>
        (~step.ok <=> \E k \in 1..Len(StepPaths) : BeforePath(k).ok /\ MustFail(k))

\* a call failed on its second path, which the map had before the call
ConsistencyErrorsWitness ==
    /\ ~step.ok
    /\ Len(StepPaths) = 2
    /\ BeforePath(2).ok
    /\ StepPaths[2] \in DOMAIN step.pre
    /\ step.error \in {"delete", "modify"}

\* C8: a successful call leaves the identifier of every path it keeps, and
\* neither adds, replaces nor writes as the child of a copy, as it was.
IdentifierStability ==
    step.ok =>
        \A p \in DOMAIN step.pre \cap DOMAIN map :
            /\ ~(p \in DOMAIN step.changes /\ step.changes[p][1] \in {"A", "R"})
            /\ \A q \in DOMAIN step.changes : p \notin CopiedTo(q)
            => map[p][1] = step.pre[p][1]

\* a successful call modified a path and touched a directory above another
IdentifierStabilityWitness ==
    /\ step.ok
    /\ \E p \in DOMAIN step.changes \cap DOMAIN step.pre :
          step.changes[p][1] = "M" /\ map[p][2] # step.pre[p][2]
    /\ \E p \in DOMAIN step.changes, d \in DOMAIN step.pre :
          d \in AncestorDirs(p) /\ map[d][2] # step.pre[d][2]

\* C9: the identifier of a path that a successful call adds or replaces
\* without a rename override for it is none the path carried in the map of
\* an earlier revision.
FreshIdentity ==
    step.ok =>
        \A p \in DOMAIN step.changes :
            step.changes[p][1] \in {"A", "R"} /\ p \notin DOMAIN step.renames
            => <<p, map[p][1]>> \notin step.seen

\* a path that an earlier revision had and the last one had not is added again
FreshIdentityWitness ==
    /\ step.ok
    /\ \E p \in DOMAIN step.changes :
          /\ step.changes[p][1] = "A"
          /\ p \notin DOMAIN step.renames
          /\ p \notin DOMAIN step.pre
          /\ \E i \in {e[2] : e \in step.seen} : <<p, i>> \in step.seen

---------------------------------------------------------------------------
(* ChangeSpec: a caller folds revisions that change several paths at once,
   with apply_changes or, without a child finder, with _apply_changes *)

\* the revisions a fold of ChangeSpec goes through
MaxChange == 2

\* "a/x/y"
DeepPath == <<"a", "/", "x", "/", "y">>

\* two paths of the branch added, deleted or modified together, neither below
\* the other inside the branch: "" and "a", "a" and "b", "a/x" and "b"
PairSets(sch, bp) ==
    UNION {{(Global(bp, pq[1]) :> d) @@ (Global(bp, pq[2]) :> e) :
               d \in {f \in DataOf(sch, pq[1]) : f[1] # "R"},
               e \in {f \in DataOf(sch, pq[2]) : f[1] # "R"}} :
           pq \in {<<<<>>, <<"a">>>>, <<<<"a">>, <<"b">>>>,
                   <<<<"a", "/", "x">>, <<"b">>>>}}

\* Changes that reach "a/x/y": "a", "a/x" and "a/x/y" added together, "a/x/y"
\* changed alone, and "a/x" modified together with a change of "a/x/y".
DeepSets(bp) ==
    {(Global(bp, <<"a">>) :> <<"A", None, None>>)
        @@ (Global(bp, <<"a", "/", "x">>) :> <<"A", None, None>>)
        @@ (Global(bp, DeepPath) :> <<"A", None, None>>)}
    \cup {(Global(bp, DeepPath) :> <<a, None, None>>) : a \in {"A", "M", "D"}}
    \cup {(Global(bp, <<"a", "/", "x">>) :> <<"M", None, None>>)
            @@ (Global(bp, DeepPath) :> <<a, None, None>>) : a \in {"M", "D"}}

\* Copies next to the ones of Copies: "b" copied to "a/x", and "a" replaced
\* by a copy of "b" in a revision that also adds "a/x".
MoreCopies(bp, n) ==
    {(Global(bp, <<"a", "/", "x">>) :> <<"A", Some(Global(bp, <<"b">>)), Some(r)>>) :
        r \in 1..(n - 1)}
    \cup {(Global(bp, <<"a">>) :> <<"R", Some(Global(bp, <<"b">>)), Some(r)>>)
            @@ (Global(bp, <<"a", "/", "x">>) :> <<"A", None, None>>) :
            r \in 1..(n - 1)}

\* the changed paths of revision n of ChangeSpec
ManyChangeSets(sch, n) ==
    ChangeSets(sch, n)
    \cup PairSets(sch, BranchOf(sch))
    \cup DeepSets(BranchOf(sch))
    \cup MoreCopies(BranchOf(sch), n)

\* The rename overrides of a revision of ChangeSpec: none, or a foreign file
\* id for "a" or for "b" when the revision adds or replaces that path.
ManyRenameSets(sch, paths) ==
    {EmptyMap}
    \cup {(p :> ForeignId) :
            p \in {q \in {<<"a">>, <<"b">>} :
                      /\ Global(BranchOf(sch), q) \in DOMAIN paths
                      /\ paths[Global(BranchOf(sch), q)][1] \in {"A", "R"}}}

\* what the model keeps of a call of revision n: as FoldOutcome, and whether
\* the call had no child finder
ChangeOutcome(n, bp, paths, renames, degraded, r) ==
    /\ map' = r.map
    /\ step' = [n |-> n,
                revid |-> generate_svn_revision_id(Uuid, n, bp),
                pre |-> map,
                paths |-> paths,
                changes |-> get_local_changes(paths, scheme, Uuid),
                renames |-> renames,
                ok |-> r.ok,
                error |-> r.error,
                seen |-> step.seen \cup {<<c, map[c][1]>> : c \in DOMAIN map},
                degraded |-> degraded]

\* apply_changes for the next revision
Change(paths, renames) ==
    /\ step.ok
    /\ step.n < MaxChange
    /\ ChangeOutcome(step.n + 1, BranchOf(scheme), paths, renames, FALSE,
                     apply_changes(scheme, tree, Uuid, step.n + 1,
                                   BranchOf(scheme), paths, map, renames))
    /\ tree' = Append(tree, SvnCommit(tree, paths))
    /\ UNCHANGED <<scheme, log, cachedb, call, callers, saved, ra, upgrade>>

\* _apply_changes with find_children = None for the next revision, when it
\* has a change with a copy source
ChangeDegraded(paths, renames) ==
    /\ step.ok
    /\ step.n < MaxChange
    /\ \E p \in DOMAIN get_local_changes(paths, scheme, Uuid) :
          get_local_changes(paths, scheme, Uuid)[p][2] # None
    /\ ChangeOutcome(step.n + 1, BranchOf(scheme), paths, renames, TRUE,
                     _apply_changes(map,
                         generate_svn_revision_id(Uuid, step.n + 1, BranchOf(scheme)),
                         get_local_changes(paths, scheme, Uuid), None, renames))
    /\ tree' = Append(tree, SvnCommit(tree, paths))
    /\ UNCHANGED <<scheme, log, cachedb, call, callers, saved, ra, upgrade>>

ChangeNext ==
    \/ /\ step.ok
       /\ step.n < MaxChange
       /\ \E paths \in ManyChangeSets(scheme, step.n + 1) :
             \E renames \in ManyRenameSets(scheme, paths) :
                 Change(paths, renames)
    \/ /\ step.ok
       /\ step.n < MaxChange
       /\ \E paths \in ManyChangeSets(scheme, step.n + 1) :
             \E renames \in ManyRenameSets(scheme, paths) :
                 ChangeDegraded(paths, renames)

ChangeSpec == FoldInit /\ [][ChangeNext]_vars

---------------------------------------------------------------------------
(* Properties of one _apply_changes call, stated on the last call of
   ChangeSpec *)

\* the child finder of the last call
StepFinderOf == IF step.degraded THEN None ELSE StepFinder

\* C11: after a successful call for revision id R, every directory above
\* every changed path (every proper prefix of the path that ends where the
\* path has a "/") is in the map, last touched at R.
AncestorTouch ==
    step.ok /\ step.n > 0 =>
        \A p \in DOMAIN step.changes :
            \A d \in AncestorDirs(p) :
                d \in DOMAIN map /\ map[d][2] = step.revid

\* a successful call changed a path and the directory above it, which has a
\* directory above it: the walk up from the path stopped at once
AncestorTouchWitness ==
    /\ step.ok
    /\ \E p \in DOMAIN step.changes :
          \E d \in AncestorDirs(p) \cap DOMAIN step.changes :
              /\ step.changes[d][1] = "M"
              /\ AncestorDirs(d) # {}
              /\ \A e \in AncestorDirs(d) : step.pre[e][2] # step.revid

\* C12: after a successful call for revision id R, an added or replaced path
\* p has the entry (renames[p], R) when the rename overrides have p, and
\* otherwise (the file id made of the revision number and branch of R and
\* of p, R).
IdentifierSelection ==
    step.ok /\ step.n > 0 =>
        \A p \in DOMAIN step.changes :
            step.changes[p][1] \in {"A", "R"} =>
                /\ p \in DOMAIN map
                /\ map[p] = <<IF p \in DOMAIN step.renames THEN step.renames[p]
                              ELSE generate_svn_file_id(Uuid, step.n,
                                                        BranchOf(scheme), p),
                              step.revid>>

\* a successful call added one path with a rename override and another
\* without
IdentifierSelectionWitness ==
    /\ step.ok
    /\ \E p \in DOMAIN step.changes, q \in DOMAIN step.changes :
          /\ step.changes[p][1] \in {"A", "R"}
          /\ step.changes[q][1] \in {"A", "R"}
          /\ p \in DOMAIN step.renames
          /\ q \notin DOMAIN step.renames

\* C13: get_local_changes keys every entry by its path inside the branch; a
\* copy of the branch root onto the branch root becomes a modification of
\* the root without copy source, any other copy keeps its action and has as
\* source the path inside its branch and the revision id of (uuid, source
\* revnum, source branch), and an entry without copy source stays as it is.
ChangeNormalization ==
    step.n > 0 =>
        /\ DOMAIN step.changes = {unprefix(scheme, gp)[2] : gp \in DOMAIN step.paths}
        /\ \A gp \in DOMAIN step.paths :
              LET data == step.paths[gp]
                  lp   == unprefix(scheme, gp)[2]
              IN  step.changes[lp] =
                    IF data[2] = None THEN data
                    ELSE IF unprefix(scheme, data[2][1])[2] = <<>> /\ lp = <<>>
                    THEN <<"M", None, None>>
                    ELSE <<data[1], Some(unprefix(scheme, data[2][1])[2]),
                           Some(generate_svn_revision_id(Uuid, data[3][1],
                                    unprefix(scheme, data[2][1])[1]))>>

\* a call whose changes replace the branch by a copy of the branch
ChangeNormalizationWitness ==
    /\ step.n > 0
    /\ \E gp \in DOMAIN step.paths :
          /\ step.paths[gp][1] = "R"
          /\ step.paths[gp][2] # None
          /\ step.changes[unprefix(scheme, gp)[2]] = <<"M", None, None>>

\* the changes of the last call without their copy sources
StepPlain == [p \in DOMAIN step.changes |-> <<step.changes[p][1], None, None>>]

\* the added or replaced paths with a copy source in the last call
StepCopies ==
    {p \in DOMAIN step.changes :
        step.changes[p][1] \in {"A", "R"} /\ step.changes[p][2] # None}

\* C18: a call without child finder ends as the call with the same changes
\* stripped of their copy sources ends: a copy registers the entry of its
\* destination alone, it does not fail the call, the paths after it are
\* handled and the parents touched; and it warns for every copy it handles.
DegradedCopy ==
    step.degraded =>
        LET r == _apply_changes(step.pre, step.revid, StepPlain, None, step.renames)
            w == warned(step.pre, step.revid, step.changes, StepPaths, None,
                        step.renames)
        IN  /\ step.ok = r.ok
            /\ map = r.map
            /\ step.ok => /\ {w[i] : i \in 1..Len(w)} = StepCopies
                          /\ DOMAIN map \subseteq DOMAIN step.pre \cup DOMAIN step.changes
                          /\ \A p \in StepCopies :
                                /\ p \in DOMAIN map
                                /\ \A d \in AncestorDirs(p) : map[d][2] = step.revid

\* a successful call without child finder copied a directory that had
\* entries below it at the source revision
DegradedCopyWitness ==
    /\ step.degraded
    /\ step.ok
    /\ \E p \in StepCopies :
          StepFinder[1][<<step.changes[p][2][1], step.changes[p][3][1]>>] # <<>>

\* the orders in which the paths of S can be handled
RECURSIVE Orders(_)
Orders(S) ==
    IF S = {} THEN {<<>>}
    ELSE UNION {{<<x>> \o t : t \in Orders(S \ {x})} : x \in S}

\* the last call again, handling the changed paths in the given order
StepInOrder(order) ==
    ApplyPaths(step.pre, step.revid, step.changes, order, StepFinderOf, step.renames)

\* C19 as stated: a call that succeeds ends with the same map in whatever
\* order the changed paths are handled.
OrderIndependenceAsStated ==
    step.ok /\ step.n > 0 =>
        \A order \in Orders(DOMAIN step.changes) :
            StepInOrder(order).ok /\ StepInOrder(order).map = map

\* the keys the change of p writes: p and the keys of its copied children
StepKeys(p) == {p} \cup (IF step.degraded THEN {} ELSE CopiedTo(p))

\* no key that one change writes is a key, or below a key, that another
\* change of the last call writes
StepChangesApart ==
    \A p \in DOMAIN step.changes :
        \A q \in DOMAIN step.changes \ {p} :
            \A k \in StepKeys(p) :
                \A l \in StepKeys(q) :
                    k # l /\ k \notin AncestorDirs(l) /\ l \notin AncestorDirs(k)

\* C19: the same for a call whose changes write keys that are apart.
OrderIndependence ==
    step.ok /\ step.n > 0 /\ StepChangesApart =>
        \A order \in Orders(DOMAIN step.changes) :
            StepInOrder(order).ok /\ StepInOrder(order).map = map

\* a successful call changed "a/x" and "b" together, which a call in the
\* other order handles "b" first
OrderIndependenceWitness ==
    /\ step.ok
    /\ StepChangesApart
    /\ DOMAIN step.changes = {<<"a", "/", "x">>, <<"b">>}
    /\ step.changes[<<"b">>][1] = "D"

---------------------------------------------------------------------------
(* The cache and FileIdMap.get_map *)

\* A row of table filemap (filename, id, create_revid, revid).  Column id is
\* declared integer and the others text: sqlite stores a text that reads as
\* a whole number in column id as that number, and any other text as it is.

Digits == <<"0", "1", "2", "3", "4", "5", "6", "7", "8", "9">>

\* the number the digit c stands for
DigitValue(c) == (CHOOSE i \in 1..10 : Digits[i] = c) - 1

IsIntegerLiteral(v) ==
    /\ v # <<>>
    /\ \A i \in 1..Len(v) : \E k \in 1..10 : Digits[k] = v[i]

RECURSIVE DecimalValue(_)
DecimalValue(v) ==
    IF v = <<>> THEN 0
    ELSE 10 * DecimalValue(SubSeq(v, 1, Len(v) - 1)) + DigitValue(v[Len(v)])

\* a number as sqlite hands it back, which is no string
Integer(n) == <<"int", n>>

\* what column id keeps of the text v
integer_affinity(v) == IF IsIntegerLiteral(v) THEN Integer(DecimalValue(v)) ELSE v

\* save gone wrong: the two components of an entry go to the wrong columns
save_swapped(db, revid, parent_revids, m) ==
    LET names == Sorted(DOMAIN m)
    IN  db \o [i \in 1..Len(names) |->
                  [filename |-> names[i], id |-> m[names[i]][2],
                   create_revid |-> m[names[i]][1], revid |-> revid]]

\* FileIdMap.save: one row per path of _map, then commit.  Column id takes
\* the first component of the entry and column create_revid the second.
save(db, revid, parent_revids, m) ==
    LET names == Sorted(DOMAIN m)
    IN  db \o [i \in 1..Len(names) |->
                  [filename |-> names[i], id |-> integer_affinity(m[names[i]][1]),
                   create_revid |-> m[names[i]][2], revid |-> revid]]

\* FileIdMap.load: the rows of revid in the order of their insertion, each
\* selected as (filename, create_revid, id) and stored as (id, create_revid)
RECURSIVE load_rows(_, _, _)
load_rows(m, db, revid) ==
    IF db = <<>> THEN m
    ELSE load_rows(IF Head(db).revid = revid
                   THEN Put(m, Head(db).filename,
                            <<Head(db).id, Head(db).create_revid>>)
                   ELSE m,
                   Tail(db), revid)

\* load gone wrong: the entry is stored as (create_revid, id)
RECURSIVE load_rows_swapped(_, _, _)
load_rows_swapped(m, db, revid) ==
    IF db = <<>> THEN m
    ELSE load_rows_swapped(IF Head(db).revid = revid
                           THEN Put(m, Head(db).filename,
                                    <<Head(db).create_revid, Head(db).id>>)
                           ELSE m,
                           Tail(db), revid)

load_swapped(db, revid) == load_rows_swapped(EmptyMap, db, revid)

load(db, revid) == load_rows(EmptyMap, db, revid)

\* whether revision r of lg changes a path of branch bp
Touches(lg, r, bp) ==
    \E p \in DOMAIN lg[r].paths :
        bp = <<>> \/ p = bp \/ StartsWith(p, bp \o <<"/">>)

\* self._log.follow_history(branch, revnum): newest first, the revisions
\* that changed the branch as (branch path, changed paths, revnum), through
\* the copy that created the branch into the branch it was copied from
RECURSIVE follow_history(_, _, _)
follow_history(lg, bp, revnum) ==
    IF revnum = 0 THEN <<>>
    ELSE IF ~Touches(lg, revnum, bp) THEN follow_history(lg, bp, revnum - 1)
    ELSE LET paths == lg[revnum].paths
         IN  <<<<bp, paths, revnum>>>> \o
             (IF bp \in DOMAIN paths /\ paths[bp][1] \in {"A", "R"}
              THEN IF paths[bp][2] = None THEN <<>>
                   ELSE follow_history(lg, paths[bp][2][1], paths[bp][3][1])
              ELSE follow_history(lg, bp, revnum - 1))

\* renames_cb(revid): the rename overrides recorded with the revision
renames_cb(lg, revid) == lg[parse_svn_revision_id(revid)[3]].renames

\* The first loop of get_map, from the i-th revision of history on: the walk
\* back to the nearest revision with a cached map.
RECURSIVE find_cached(_, _, _, _, _)
find_cached(db, uuid, history, i, todo) ==
    IF i > Len(history)
    THEN [map |-> EmptyMap, next_parent_revs |-> <<>>, todo |-> todo]
    ELSE LET revid == generate_svn_revision_id(uuid, history[i][3], history[i][1])
             m     == load(db, revid)
         IN  IF m # EmptyMap
             THEN [map |-> m, next_parent_revs |-> <<revid>>, todo |-> todo]
             ELSE find_cached(db, uuid, history, i + 1,
                              Append(todo, <<revid, history[i][2]>>))

NotReversed(q) == q

\* todo.reverse()
Reverse(q) == [i \in 1..Len(q) |-> q[Len(q) + 1 - i]]

\* The second loop of get_map, from the i-th entry of the reversed todo on.
RECURSIVE fold_todo(_, _, _, _, _, _, _)
fold_todo(sch, lg, trees, uuid, m, todo, i) ==
    IF i > Len(todo) THEN Ok(m)
    ELSE LET revid   == todo[i][1]
             changes == get_local_changes(todo[i][2], sch, uuid)
             r == _apply_changes(m, revid, changes,
                                 find_children(sch, trees, changes),
                                 renames_cb(lg, revid))
         IN  IF ~r.ok THEN r
             ELSE fold_todo(sch, lg, trees, uuid, r.map, todo, i + 1)

\* the end gone wrong: the map is saved under the first revision folded
get_map_end_saving_first(db, walk, todo, r) ==
    IF ~r.ok
    THEN [ok |-> FALSE, map |-> r.map, cachedb |-> db,
          from |-> walk.next_parent_revs, folded |-> Len(todo)]
    ELSE [ok |-> TRUE, map |-> r.map,
          cachedb |-> save(db, todo[1][1], walk.next_parent_revs, r.map),
          from |-> walk.next_parent_revs, folded |-> Len(todo)]

\* The end of get_map, after the second loop ended with outcome r: a failed
\* assertion leaves the cache alone, otherwise the map is saved under the
\* last revision folded and returned.
get_map_end(db, walk, todo, r) ==
    IF ~r.ok
    THEN [ok |-> FALSE, map |-> r.map, cachedb |-> db,
          from |-> walk.next_parent_revs, folded |-> Len(todo)]
    ELSE [ok |-> TRUE, map |-> r.map,
          cachedb |-> save(db, todo[Len(todo)][1],
                           IF Len(todo) > 1 THEN <<todo[Len(todo) - 1][1]>>
                           ELSE walk.next_parent_revs,
                           r.map),
          from |-> walk.next_parent_revs, folded |-> Len(todo)]

\* get_map from "if len(todo) == 0" on, with the map to start from
get_map_fold(sch, lg, trees, db, uuid, walk, start) ==
    IF Len(walk.todo) = 0
    THEN [ok |-> TRUE, map |-> start, cachedb |-> db,
          from |-> walk.next_parent_revs, folded |-> 0]
    ELSE get_map_end(db, walk, Reverse(walk.todo),
                     fold_todo(sch, lg, trees, uuid, start, Reverse(walk.todo), 1))

\* get_map after its first loop
get_map_walked(sch, lg, trees, db, uuid, walk) ==
    get_map_fold(sch, lg, trees, db, uuid, walk,
                 IF Len(walk.next_parent_revs) = 0 THEN genesis(sch, uuid)
                 ELSE walk.map)

\* FileIdMap.get_map(uuid, revnum, branch): the outcome, the map returned,
\* the cache afterwards, the revision whose cached map it started from and
\* the number of revisions it folded
get_map(sch, lg, trees, db, uuid, revnum, branch) ==
    IF revnum = 0
    THEN [ok |-> TRUE, map |-> EmptyMap, cachedb |-> db, from |-> <<>>, folded |-> 0]
    ELSE get_map_walked(sch, lg, trees, db, uuid,
            find_cached(db, uuid, follow_history(lg, branch, revnum), 1, <<>>))

---------------------------------------------------------------------------
(* Spec: revisions are committed to the repository and callers ask for the
   file id map of a revision with FileIdMap.get_map *)

\* the revisions of the repository
MaxRev == 2

\* Subversion accepts the changes of one path on tree T: a path is added
\* where there is none and its directory exists, a copy has a source, and a
\* deleted, replaced or modified path exists.
SvnAccepts(T, trees, p, data) ==
    /\ data[1] = "A" => p \notin T /\ WithAncestors(p) \ {p} \subseteq T
    /\ data[1] \in {"D", "R", "M"} => p \in T
    /\ data[2] # None => data[2][1] \in trees[data[3][1] + 1]

RECURSIVE SvnAcceptsAll(_, _, _, _)
SvnAcceptsAll(T, trees, paths, sorted_paths) ==
    IF sorted_paths = <<>> THEN TRUE
    ELSE /\ SvnAccepts(T, trees, Head(sorted_paths), paths[Head(sorted_paths)])
         /\ SvnAcceptsAll(SvnApplyPath(T, trees, Head(sorted_paths),
                                       paths[Head(sorted_paths)]),
                          trees, paths, Tail(sorted_paths))

SvnValid(trees, paths) ==
    SvnAcceptsAll(trees[Len(trees)], trees, paths, Sorted(DOMAIN paths))

\* the branch the next revision changes
CurrentBranch == IF log = <<>> THEN BranchOf(scheme) ELSE log[Len(log)].bp

\* the rename overrides of a revision of the log: none, or a foreign file id
\* for "b" when the revision adds or replaces "b"
LogRenames(bp, paths) ==
    {EmptyMap}
    \cup IF /\ Global(bp, <<"b">>) \in DOMAIN paths
            /\ paths[Global(bp, <<"b">>)][1] \in {"A", "R"}
         THEN {(<<"b">> :> ForeignId), (<<"b">> :> NumericId)}
         ELSE {}

Init ==
    /\ scheme \in {"none", "single"}
    /\ log = <<>>
    /\ tree = <<{<<>>}>>
    /\ cachedb = <<>>
    /\ call = NoCall
    /\ map = EmptyMap
    /\ step = NoStep
    /\ callers = <<>>
    /\ saved = <<>>
    /\ ra = <<>>
    /\ upgrade = <<>>

\* a revision that changes paths of the current branch is committed
Commit(paths, renames) ==
    /\ Len(log) < MaxRev
    /\ SvnValid(tree, paths)
    /\ log' = Append(log, [bp |-> CurrentBranch, paths |-> paths, renames |-> renames])
    /\ tree' = Append(tree, SvnCommit(tree, paths))
    /\ UNCHANGED <<scheme, cachedb, call, map, step, callers, saved, ra, upgrade>>

\* the current branch is copied to the new branch "u", which later
\* revisions change
BranchCopy ==
    /\ Len(log) < MaxRev
    /\ scheme = "single"
    /\ CurrentBranch = <<"t">>
    /\ <<"t">> \in tree[Len(tree)]
    /\ LET paths == (<<"u">> :> <<"A", Some(<<"t">>), Some(Len(log))>>)
       IN  /\ log' = Append(log, [bp |-> <<"u">>, paths |-> paths,
                                  renames |-> EmptyMap])
           /\ tree' = Append(tree, SvnCommit(tree, paths))
    /\ UNCHANGED <<scheme, cachedb, call, map, step, callers, saved, ra, upgrade>>

\* what the model keeps of a get_map call
CallOf(revnum, branch, r) ==
    [done |-> TRUE, revnum |-> revnum, branch |-> branch, ok |-> r.ok,
     map |-> r.map, from |-> r.from, folded |-> r.folded]

GetMapOutcome(revnum, branch, r) ==
    /\ call' = CallOf(revnum, branch, r)
    /\ cachedb' = r.cachedb

\* the branch callers ask the map of revision revnum for: the one that
\* revision changed (revision 0: the first branch)
BranchAt(revnum) == IF revnum = 0 THEN BranchOf(scheme) ELSE log[revnum].bp

\* a caller asks for the map of revision revnum
GetMap(revnum) ==
    /\ GetMapOutcome(revnum, BranchAt(revnum),
                     get_map(scheme, log, tree, cachedb, Uuid, revnum,
                             BranchAt(revnum)))
    /\ UNCHANGED <<scheme, log, tree, map, step, callers, saved, ra, upgrade>>

Next ==
    \/ \E paths \in ChangeSetsIn(scheme, CurrentBranch, Len(log) + 1) :
          \E renames \in LogRenames(CurrentBranch, paths) : Commit(paths, renames)
    \/ BranchCopy
    \/ \E revnum \in 0..Len(log) : GetMap(revnum)

Spec == Init /\ [][Next]_vars

---------------------------------------------------------------------------
(* Properties of get_map, stated on the last call of Spec *)

\* the same call on an empty cache
ColdCall == get_map(scheme, log, tree, <<>>, Uuid, call.revnum, call.branch)

\* the same call again, on the cache as it is now
SecondCall == get_map(scheme, log, tree, cachedb, Uuid, call.revnum, call.branch)

\* the revision id under which the last call looked its target up first
TargetRevid ==
    LET history == follow_history(log, call.branch, call.revnum)
    IN  generate_svn_revision_id(Uuid, history[1][3], history[1][1])

\* C1: whatever earlier calls left in the cache, a call returns the map (or
\* fails as) the same call returns on an empty cache.
CacheTransparency ==
    call.done => call.ok = ColdCall.ok /\ (call.ok => call.map = ColdCall.map)

\* a call started from the cached map of an earlier revision and folded the
\* revisions after it
CacheTransparencyWitness ==
    /\ call.done
    /\ call.ok
    /\ call.from # <<>>
    /\ call.folded > 0
    /\ ColdCall.folded > call.folded

\* C2: after a successful call, the same call again returns an equal map.
Idempotence ==
    call.done /\ call.ok => SecondCall.ok /\ SecondCall.map = call.map

\* the call folded revisions and saved its map, and the second call is
\* served from that snapshot
IdempotenceWitness ==
    /\ call.done
    /\ call.ok
    /\ call.folded > 0
    /\ SecondCall.folded = 0
    /\ SecondCall.from = <<TargetRevid>>
    /\ Cardinality(DOMAIN call.map) > 1

\* the revision number of the revision id an entry was last touched at,
\* 0 for NULL_REVISION
RevnumOf(revid) ==
    IF revid = NULL_REVISION THEN 0 ELSE parse_svn_revision_id(revid)[3]

\* the directory of path p: "" for a path without "/"
ParentOf(p) == Join(SubSeq(Split(p), 1, Len(Split(p)) - 1))

RevisionZero ==
    call.done /\ call.revnum = 0 =>
        call.map = IF is_branch(scheme, <<>>)
                   THEN (<<>> :> <<generate_svn_file_id(Uuid, 0, <<>>, <<>>),
                                   NULL_REVISION>>)
                   ELSE EmptyMap

\* the rows that the step of a call appended to table filemap
NewRows == SubSeq(cachedb', Len(cachedb) + 1, Len(cachedb'))

\* C14: a successful call that folded at least one revision appends to the
\* cache the rows of one snapshot, all under the revision id of the revision
\* asked for and together equal to the map returned; a call that failed in
\* the fold, or that folded nothing, leaves the cache as it was.
PersistenceStep ==
    [][call' # call \/ cachedb' # cachedb =>
        /\ SubSeq(cachedb', 1, Len(cachedb)) = cachedb
        /\ IF call'.ok /\ call'.folded > 0
           THEN /\ Len(NewRows) = Cardinality(DOMAIN call'.map)
                /\ {NewRows[i].filename : i \in 1..Len(NewRows)} = DOMAIN call'.map
                /\ \A i \in 1..Len(NewRows) :
                      /\ NewRows[i].revid =
                            generate_svn_revision_id(Uuid, call'.revnum, call'.branch)
                      /\ <<NewRows[i].id, NewRows[i].create_revid>>
                            = call'.map[NewRows[i].filename]
           ELSE cachedb' = cachedb]_vars

\* the cache holds the snapshot of a call that folded more than one revision
\* and returned more than one entry
PersistenceStepWitness ==
    /\ call.done
    /\ call.ok
    /\ call.folded > 1
    /\ Cardinality(DOMAIN call.map) > 1
    /\ load(cachedb, TargetRevid) = call.map
    /\ \A i \in 1..Len(cachedb) : cachedb[i].revid = TargetRevid

---------------------------------------------------------------------------
(* CacheSpec: a caller saves and loads snapshots with FileIdMap.save and
   FileIdMap.load *)

\* the save and load calls of a behaviour
MaxCacheCalls == 3

\* the revision ids snapshots are saved under: revisions 1 and 2 of branch ""
SnapshotRevids == {generate_svn_revision_id(Uuid, n, <<>>) : n \in 1..2}

\* the entry of path p created at revision n and last touched at revision k
EntryOf(p, n, k) ==
    <<generate_svn_file_id(Uuid, n, <<>>, p), generate_svn_revision_id(Uuid, k, <<>>)>>

\* The snapshots saved: the maps after "a" is added, after "b" is added next to
\* it, after "a" is modified, and after "a" is deleted and "b" added, and the
\* map after "a" is added with the file id NumericId.
Snapshots ==
    {genesis("none", Uuid) @@ (<<"a">> :> EntryOf(<<"a">>, 1, 1)),
     genesis("none", Uuid) @@ (<<"a">> :> EntryOf(<<"a">>, 1, 1))
                           @@ (<<"b">> :> EntryOf(<<"b">>, 2, 2)),
     genesis("none", Uuid) @@ (<<"a">> :> EntryOf(<<"a">>, 1, 2)),
     genesis("none", Uuid) @@ (<<"b">> :> EntryOf(<<"b">>, 2, 2)),
     genesis("none", Uuid)
        @@ (<<"a">> :> <<NumericId, generate_svn_revision_id(Uuid, 1, <<>>)>>)}

CacheInit ==
    /\ scheme = "none"
    /\ log = <<>>
    /\ tree = <<{<<>>}>>
    /\ cachedb = <<>>
    /\ call = NoCall
    /\ map = EmptyMap
    /\ step = NoStep
    /\ callers = <<>>
    /\ saved = <<>>
    /\ ra = <<>>
    /\ upgrade = <<>>

\* self.save(revid, [], m)
SaveCall(revid, m) ==
    /\ Len(saved) < MaxCacheCalls
    /\ cachedb' = save(cachedb, revid, <<>>, m)
    /\ saved' = Append(saved, [op |-> "save", revid |-> revid, map |-> m])
    /\ UNCHANGED <<scheme, log, tree, call, map, step, callers, ra, upgrade>>

\* self.load(revid)
LoadCall(revid) ==
    /\ Len(saved) < MaxCacheCalls
    /\ saved' = Append(saved, [op |-> "load", revid |-> revid,
                               map |-> load(cachedb, revid)])
    /\ UNCHANGED <<scheme, log, tree, cachedb, call, map, step, callers, ra, upgrade>>

CacheNext ==
    \/ \E revid \in SnapshotRevids : \E m \in Snapshots : SaveCall(revid, m)
    \/ \E revid \in SnapshotRevids : LoadCall(revid)

CacheSpec == CacheInit /\ [][CacheNext]_vars

\* the calls before the i-th that saved under the revision id of the i-th
SavesBefore(i) ==
    {j \in 1..(i - 1) : saved[j].op = "save" /\ saved[j].revid = saved[i].revid}

\* the greatest element of a non-empty set of numbers
Latest(S) == CHOOSE j \in S : \A k \in S : k <= j

\* C16: a load returns exactly the snapshot saved last under its revision id,
\* whatever was saved under it before.
LastWriteWins ==
    \A i \in 1..Len(saved) :
        saved[i].op = "load" /\ SavesBefore(i) # {} =>
            saved[i].map = saved[Latest(SavesBefore(i))].map

\* C23: a load under a revision id nothing was saved under returns the empty
\* map, and a load under a revision id one snapshot was saved under returns
\* that snapshot, entry for entry, whatever was saved under other ids.
CacheRoundTrip ==
    \A i \in 1..Len(saved) :
        saved[i].op = "load" =>
            /\ SavesBefore(i) = {} => saved[i].map = EmptyMap
            /\ Cardinality(SavesBefore(i)) = 1 =>
                  saved[i].map = saved[Latest(SavesBefore(i))].map

---------------------------------------------------------------------------
(* SharedSpec: two get_map calls run at once on one cache file.  A call
   walks and folds in one step; its save then inserts row by row and
   commits.  The two callers use one sqlite connection, on which a row is
   seen as soon as it is inserted, or a connection each, on which the rows
   of the other are seen once they are committed. *)

\* The history the callers ask about: "a" and "a/x" are added, then "b", then
\* "a/x" is modified; in scheme "single" the branch "t" is added first.
SharedLog(sch) ==
    LET bp  == BranchOf(sch)
        rev(paths) == [bp |-> bp, paths |-> paths, renames |-> EmptyMap]
    IN  (IF sch = "none" THEN <<>> ELSE <<rev(bp :> <<"A", None, None>>)>>)
        \o <<rev((Global(bp, <<"a">>) :> <<"A", None, None>>)
                 @@ (Global(bp, <<"a", "/", "x">>) :> <<"A", None, None>>)),
             rev(Global(bp, <<"b">>) :> <<"A", None, None>>),
             rev(Global(bp, <<"a", "/", "x">>) :> <<"M", None, None>>)>>

\* the trees of the revisions of lg from the i-th on, after trees
RECURSIVE TreesOf(_, _, _)
TreesOf(lg, i, trees) ==
    IF i > Len(lg) THEN trees
    ELSE TreesOf(lg, i + 1, Append(trees, SvnCommit(trees, lg[i].paths)))

\* a caller that has not called get_map yet, on connection conn
IdleCaller(conn) ==
    [pc |-> "idle", conn |-> conn, revnum |-> 0, branch |-> None,
     map |-> EmptyMap, from |-> <<>>, folded |-> 0, error |-> "none",
     rows |-> <<>>, pending |-> <<>>]

SharedInit ==
    /\ scheme \in {"none", "single"}
    /\ log = SharedLog(scheme)
    /\ tree = TreesOf(SharedLog(scheme), 1, <<{<<>>}>>)
    /\ cachedb = <<>>
    /\ callers \in {<<IdleCaller(1), IdleCaller(conn)>> : conn \in {1, 2}}
    /\ call = NoCall
    /\ map = EmptyMap
    /\ step = NoStep
    /\ saved = <<>>
    /\ ra = <<>>
    /\ upgrade = <<>>

\* whether the two callers use one connection
OneConnection == callers[1].conn = callers[2].conn

\* Caller c calls get_map for revision revnum: the call up to self.save, on
\* the rows the caller sees.  r is the outcome of get_map on these rows; the
\* rows it appends are the rows save has yet to insert.
BeginOutcome(c, revnum, r) ==
    callers' = [callers EXCEPT ![c] =
                  [@ EXCEPT !.pc = IF ~r.ok THEN "raised"
                                   ELSE IF Len(r.cachedb) = Len(cachedb) THEN "done"
                                   ELSE "saving",
                            !.revnum = revnum,
                            !.branch = Some(log[revnum].bp),
                            !.map = r.map,
                            !.from = r.from,
                            !.folded = r.folded,
                            !.error = IF r.ok THEN "none" ELSE "assert",
                            !.rows = SubSeq(r.cachedb, Len(cachedb) + 1,
                                            Len(r.cachedb))]]

Begin(c, revnum) ==
    /\ callers[c].pc = "idle"
    /\ BeginOutcome(c, revnum,
                    get_map(scheme, log, tree, cachedb, Uuid, revnum, log[revnum].bp))
    /\ UNCHANGED <<scheme, log, tree, cachedb, call, map, step, saved, ra, upgrade>>

\* save of caller c executes its next insert
InsertRow(c) ==
    /\ callers[c].pc = "saving"
    /\ callers[c].rows # <<>>
    /\ IF OneConnection
       THEN /\ cachedb' = Append(cachedb, Head(callers[c].rows))
            /\ callers' = [callers EXCEPT ![c].rows = Tail(@)]
       ELSE /\ cachedb' = cachedb
            /\ callers' = [callers EXCEPT ![c].rows = Tail(@),
                                          ![c].pending = Append(@, Head(callers[c].rows))]
    /\ UNCHANGED <<scheme, log, tree, call, map, step, saved, ra, upgrade>>

\* save of caller c commits, and get_map returns the map
CommitSave(c) ==
    /\ callers[c].pc = "saving"
    /\ callers[c].rows = <<>>
    /\ cachedb' = cachedb \o callers[c].pending
    /\ callers' = [callers EXCEPT ![c].pc = "done", ![c].pending = <<>>]
    /\ UNCHANGED <<scheme, log, tree, call, map, step, saved, ra, upgrade>>

\* An insert or the commit of the save of caller c raises: the exception
\* leaves save and get_map, which catch nothing.  Rows inserted on a
\* connection of its own are never committed.
SaveFails(c) ==
    /\ callers[c].pc = "saving"
    /\ callers' = [callers EXCEPT ![c].pc = "raised", ![c].error = "save",
                                  ![c].rows = <<>>, ![c].pending = <<>>]
    /\ UNCHANGED <<scheme, log, tree, cachedb, call, map, step, saved, ra, upgrade>>

SharedNext ==
    \/ \E c \in {1, 2} : \E revnum \in 1..Len(log) : Begin(c, revnum)
    \/ \E c \in {1, 2} : InsertRow(c)
    \/ \E c \in {1, 2} : CommitSave(c)
    \/ \E c \in {1, 2} : SaveFails(c)

SharedSpec == SharedInit /\ [][SharedNext]_vars

\* the call of caller c run alone, on an empty cache
AloneCall(c) ==
    get_map(scheme, log, tree, <<>>, Uuid, callers[c].revnum, callers[c].branch[1])

\* C15: a call whose cache write failed has returned the map it computed.
CacheFailureTolerance ==
    \A c \in 1..Len(callers) :
        callers[c].error = "save" =>
            callers[c].pc = "done" /\ callers[c].map = AloneCall(c).map

\* C17: as long as no cache write fails, under every interleaving of one
\* call's inserts and commit with the other call's load, a call that is past
\* its fold has the map it returns when run alone.
ConcurrentSharing ==
    (\A d \in 1..Len(callers) : callers[d].error # "save") =>
        \A c \in 1..Len(callers) :
            callers[c].pc \in {"saving", "done"} =>
                callers[c].map = AloneCall(c).map

---------------------------------------------------------------------------
(* RaSpec: one RemoteAccess and the commit editors obtained from it, as the
   tests of test_ra.py use them.  An editor is "open" until it is closed or
   aborted; root and child are its root directory editor and the directory
   added under it, "none" until obtained.  reporter is the reporter that
   do_diff hands out, "none" until obtained and "finished" after finish.
   last is the latest call and how it ended: "ok", "BusyException" or
   "RuntimeError". *)

MaxEditors == 2

NewEditor == [state |-> "open", root |-> "none", child |-> "none"]

NewRa ==
    [busy |-> FALSE, editors |-> <<>>, reporter |-> "none",
     last |-> [op |-> "none", editor |-> 0, result |-> "ok"]]

Returned(r, op, e) ==
    [r EXCEPT !.last = [op |-> op, editor |-> e, result |-> "ok"]]

Raised(r, op, e, exception) ==
    [r EXCEPT !.last = [op |-> op, editor |-> e, result |-> exception]]

get_commit_editor_while_busy(r) ==
    Returned([r EXCEPT !.busy = TRUE, !.editors = Append(@, NewEditor)],
             "get_commit_editor", Len(r.editors) + 1)

\* self.ra.get_commit_editor(revprops, callback)
get_commit_editor(r) ==
    IF r.busy
    THEN Raised(r, "get_commit_editor", 0, "BusyException")
    ELSE Returned([r EXCEPT !.busy = TRUE, !.editors = Append(@, NewEditor)],
                  "get_commit_editor", Len(r.editors) + 1)

\* editor.abort()
editor_abort(r, e) ==
    IF r.editors[e].state # "open"
    THEN Raised(r, "abort", e, "RuntimeError")
    ELSE Returned([r EXCEPT !.busy = FALSE, !.editors[e].state = "aborted"],
                  "abort", e)

\* editor.close()
editor_close(r, e) ==
    IF r.editors[e].state # "open"
    THEN Raised(r, "close", e, "RuntimeError")
    ELSE Returned([r EXCEPT !.busy = FALSE, !.editors[e].state = "closed"],
                  "close", e)

\* dir.close() of the root directory editor
root_close(r, e) ==
    IF r.editors[e].root = "closed"
    THEN Raised(r, "root.close", e, "RuntimeError")
    ELSE Returned([r EXCEPT !.editors[e].root = "closed"], "root.close", e)

\* root.add_directory(name)
add_directory(r, e) ==
    IF r.editors[e].child = "open"
    THEN Raised(r, "add_directory", e, "RuntimeError")
    ELSE Returned([r EXCEPT !.editors[e].child = "open"], "add_directory", e)

reporter_set_path_again(r) == Returned(r, "set_path", 0)

\* reporter.set_path(path, rev, start_empty)
reporter_set_path(r) ==
    IF r.reporter = "finished"
    THEN Raised(r, "set_path", 0, "RuntimeError")
    ELSE Returned(r, "set_path", 0)

\* reporter.finish()
reporter_finish(r) ==
    IF r.reporter = "finished"
    THEN Raised(r, "finish", 0, "RuntimeError")
    ELSE Returned([r EXCEPT !.reporter = "finished"], "finish", 0)

RaInit ==
    /\ scheme = "none"
    /\ log = <<>>
    /\ tree = <<{<<>>}>>
    /\ cachedb = <<>>
    /\ call = NoCall
    /\ map = EmptyMap
    /\ step = NoStep
    /\ callers = <<>>
    /\ saved = <<>>
    /\ ra = NewRa
    /\ upgrade = <<>>

RaUnchanged == UNCHANGED <<scheme, log, tree, cachedb, call, map, step, callers, saved, upgrade>>

GetCommitEditor ==
    /\ ra.reporter # "open"
    /\ ra.busy \/ Len(ra.editors) < MaxEditors
    /\ ra' = get_commit_editor(ra)
    /\ RaUnchanged

\* editor.open_root()
OpenRoot(e) ==
    /\ ra.editors[e].state = "open"
    /\ ra.editors[e].root = "none"
    /\ ra' = Returned([ra EXCEPT !.editors[e].root = "open"], "open_root", e)
    /\ RaUnchanged

AddDirectory(e) ==
    /\ ra.editors[e].state = "open"
    /\ ra.editors[e].root = "open"
    /\ ra' = add_directory(ra, e)
    /\ RaUnchanged

\* subdir.close()
CloseSubdir(e) ==
    /\ ra.editors[e].state = "open"
    /\ ra.editors[e].child = "open"
    /\ ra' = Returned([ra EXCEPT !.editors[e].child = "closed"], "subdir.close", e)
    /\ RaUnchanged

CloseRoot(e) ==
    /\ ra.editors[e].state = "open"
    /\ ra.editors[e].root # "none"
    /\ ra.editors[e].child # "open"
    /\ ra' = root_close(ra, e)
    /\ RaUnchanged

CloseEditor(e) ==
    /\ ra.editors[e].root # "open"
    /\ ra' = editor_close(ra, e)
    /\ RaUnchanged

AbortEditor(e) ==
    /\ ra' = editor_abort(ra, e)
    /\ RaUnchanged

\* self.ra.do_diff(rev, "", url, editor), called while no editor is open
DoDiff ==
    /\ ~ra.busy
    /\ ra.reporter = "none"
    /\ ra' = Returned([ra EXCEPT !.reporter = "open"], "do_diff", 0)
    /\ RaUnchanged

SetPath ==
    /\ ra.reporter # "none"
    /\ ra' = reporter_set_path(ra)
    /\ RaUnchanged

Finish ==
    /\ ra.reporter # "none"
    /\ ra' = reporter_finish(ra)
    /\ RaUnchanged

RaNext ==
    \/ GetCommitEditor
    \/ DoDiff
    \/ SetPath
    \/ Finish
    \/ \E e \in DOMAIN ra.editors : OpenRoot(e)
    \/ \E e \in DOMAIN ra.editors : AddDirectory(e)
    \/ \E e \in DOMAIN ra.editors : CloseSubdir(e)
    \/ \E e \in DOMAIN ra.editors : CloseRoot(e)
    \/ \E e \in DOMAIN ra.editors : CloseEditor(e)
    \/ \E e \in DOMAIN ra.editors : AbortEditor(e)

RaSpec == RaInit /\ [][RaNext]_vars

\* the editors of r that are neither closed nor aborted
OpenEditors(r) == {e \in DOMAIN r.editors : r.editors[e].state = "open"}

\* C20: a get_commit_editor call made while an editor obtained from the
\* RemoteAccess is neither closed nor aborted raises BusyException and
\* hands out no editor, and abort of an open editor succeeds and ends it.
SingleActiveCommitEditor ==
    [][/\ (ra' # ra /\ ra'.last.op = "get_commit_editor" /\ OpenEditors(ra) # {})
            => /\ ra'.last.result = "BusyException"
               /\ ra'.editors = ra.editors
       /\ \A e \in OpenEditors(ra) :
            (ra' # ra /\ ra'.last.op = "abort" /\ ra'.last.editor = e)
                => /\ ra'.last.result = "ok"
                   /\ ra'.editors[e].state = "aborted"]_vars

SingleActiveCommitEditorWitness ==
    /\ ra.last.op = "get_commit_editor"
    /\ ra.last.result = "BusyException"
    /\ OpenEditors(ra) # {}
    /\ Len(ra.editors) = 1

\* C21: a close of a directory editor that is closed, a close or an abort of
\* a commit editor that is closed, and a finish or a set_path of a reporter
\* that is finished raise RuntimeError and leave the objects as they were.
EditorsSingleUse ==
    [][ra' # ra =>
        /\ \A e \in DOMAIN ra.editors :
            /\ (ra'.last.op = "root.close" /\ ra'.last.editor = e
                    /\ ra.editors[e].root = "closed")
                 => ra'.last.result = "RuntimeError" /\ ra'.editors = ra.editors
            /\ (ra'.last.op \in {"close", "abort"} /\ ra'.last.editor = e
                    /\ ra.editors[e].state = "closed")
                 => ra'.last.result = "RuntimeError" /\ ra'.editors = ra.editors
        /\ (ra'.last.op \in {"finish", "set_path"} /\ ra.reporter = "finished")
             => ra'.last.result = "RuntimeError" /\ ra'.reporter = "finished"]_vars

EditorsSingleUseWitness ==
    /\ ra.last.op = "set_path"
    /\ ra.last.result = "RuntimeError"
    /\ ra.reporter = "finished"
    /\ \E e \in DOMAIN ra.editors :
        ra.editors[e].state = "closed" /\ ra.editors[e].root = "closed"

---------------------------------------------------------------------------
(* Properties of the walk and the fold of get_map, stated on the calls of
   SharedSpec *)

\* the revision id get_map looks the i-th revision of history up under
HistoryRevid(history, i) ==
    generate_svn_revision_id(Uuid, history[i][3], history[i][1])

\* the place in history (newest first) of the newest revision that has rows
\* in table db, one past the end of history when none has
NearestCached(db, history) ==
    LET hits == {i \in 1..Len(history) :
                    \E k \in 1..Len(db) : db[k].revid = HistoryRevid(history, i)}
    IN  IF hits = {} THEN Len(history) + 1
        ELSE CHOOSE i \in hits : \A j \in hits : i <= j

\* the changesets of the revisions history[j], history[j - 1], ..,
\* history[1], oldest first, applied to m one after the other
RECURSIVE FoldAscending(_, _, _)
FoldAscending(m, history, j) ==
    IF j = 0 THEN Ok(m)
    ELSE LET r == _apply_changes(m, HistoryRevid(history, j),
                      get_local_changes(history[j][2], scheme, Uuid),
                      find_children(scheme, tree,
                                    get_local_changes(history[j][2], scheme, Uuid)),
                      renames_cb(log, HistoryRevid(history, j)))
         IN  IF ~r.ok THEN r ELSE FoldAscending(r.map, history, j - 1)

\* what a call with history and the nearest cached revision at place k is to
\* return, on table db
WalkThenFold(c, db, history, k) ==
    /\ callers'[c].from = IF k > Len(history) THEN <<>>
                          ELSE <<HistoryRevid(history, k)>>
    /\ callers'[c].folded = k - 1
    /\ LET r == FoldAscending(IF k > Len(history) THEN genesis(scheme, Uuid)
                              ELSE load(db, HistoryRevid(history, k)),
                              history, k - 1)
       IN  /\ callers'[c].error = (IF r.ok THEN "none" ELSE "assert")
           /\ r.ok => callers'[c].map = r.map

\* C22: a call stops its walk at the newest revision of the branch's history
\* that has a snapshot in the cache, or at the end of history, and its map is
\* that snapshot (or the genesis map) with the changesets of the revisions
\* after it, and no others, applied once each, oldest first.
BackwardWalkForwardFold ==
    [][\A c \in DOMAIN callers :
          (callers[c].pc = "idle" /\ callers'[c].pc # "idle") =>
              WalkThenFold(c, cachedb,
                           follow_history(log, callers'[c].branch[1],
                                          callers'[c].revnum),
                           NearestCached(cachedb,
                               follow_history(log, callers'[c].branch[1],
                                              callers'[c].revnum)))]_vars

\* a call has started from the committed snapshot of an earlier revision and
\* folded the two revisions after it
BackwardWalkForwardFoldWitness ==
    \E c \in DOMAIN callers :
        /\ callers[c].pc = "done"
        /\ callers[c].from # <<>>
        /\ callers[c].folded = 2
        /\ \E p \in DOMAIN callers[c].map :
              callers[c].map[p][2] = callers[c].from[1]

---------------------------------------------------------------------------
(* PlainSpec: a fold of revisions that Subversion accepts and that carry no
   rename overrides, among them revisions that copy one source twice and
   revisions that copy a directory and replace a path inside it *)

\* "a" copied to "b" and to "d" in one revision, and "a" copied to "b" in a
\* revision that also replaces "a/x"
SharedSourceCopies(bp, n) ==
    {(Global(bp, <<"b">>) :> <<"A", Some(Global(bp, <<"a">>)), Some(r)>>)
        @@ (Global(bp, <<"d">>) :> <<"A", Some(Global(bp, <<"a">>)), Some(r)>>) :
        r \in 1..(n - 1)}
    \cup {(Global(bp, <<"b">>) :> <<"A", Some(Global(bp, <<"a">>)), Some(r)>>)
            @@ (Global(bp, <<"a", "/", "x">>) :> <<"R", None, None>>) :
            r \in 1..(n - 1)}

\* the changed paths of revision n of PlainSpec
PlainChangeSets(sch, n) ==
    ChangeSets(sch, n) \cup SharedSourceCopies(BranchOf(sch), n)

PlainNext ==
    /\ step.ok
    /\ step.n < MaxFold
    /\ \E paths \in PlainChangeSets(scheme, step.n + 1) :
          SvnValid(tree, paths) /\ Fold(paths, EmptyMap)

PlainSpec == FoldInit /\ [][PlainNext]_vars

\* C25: in the map of every successful call of a fold without rename
\* overrides, no two paths carry the same file id.
IdentifierUniqueness ==
    step.ok =>
        \A p \in DOMAIN map :
            \A q \in DOMAIN map : p # q => map[p][1] # map[q][1]

---------------------------------------------------------------------------
(* UpgradeSpec: one upgrade_repository call.  repository and svn_repository
   carry lock counts, as bzrlib locks nest; the caller may hold either lock
   already.  The call takes the write lock and the read lock inside its try
   block, plans, rebases, and unlocks both in its finally block. *)

\* how often the caller may hold a lock before the call
MaxHeld == 1

\* upgrade_suffix="-upgrade"
UpgradeSuffix == <<"-", "u", "p", "g", "r", "a", "d", "e">>

\* revid[0:revid.rfind(sub)]: rfind gives -1 when sub does not occur, and the
\* slice then drops the last character
BeforeLast(revid, sub) ==
    IF RFind(revid, sub) = 0 THEN SubSeq(revid, 1, Len(revid) - 1)
    ELSE SubSeq(revid, 1, RFind(revid, sub) - 1)

create_upgraded_revid(revid, mapping_suffix, upgrade_suffix) ==
    IF EndsWith(revid, upgrade_suffix)
    THEN BeforeLast(revid, <<"-", "s", "v", "n">>) \o mapping_suffix \o upgrade_suffix
    ELSE revid \o mapping_suffix \o upgrade_suffix

\* the revision ids upgraded: a plain one, one upgraded to mapping 3 before,
\* and one that ends with the upgrade suffix by itself
UpgradeRevids == 
    {<<"r">>,
     <<"r", "-", "s", "v", "n", "3", "-", "u", "p", "g", "r", "a", "d", "e">>,
     <<"r", "-", "u", "p", "g", "r", "a", "d", "e">>}

\* new_mapping.upgrade_suffix
MappingSuffixes == {<<"-", "s", "v", "n", "3">>, <<"-", "s", "v", "n", "4">>, <<"-", "v", "4">>}

Repositories == {"repository", "svn_repository"}

UpgradeInit ==
    /\ scheme = "none"
    /\ log = <<>>
    /\ tree = <<{<<>>}>>
    /\ cachedb = <<>>
    /\ call = NoCall
    /\ map = EmptyMap
    /\ step = NoStep
    /\ callers = <<>>
    /\ saved = <<>>
    /\ ra = <<>>
    /\ \E revid \in UpgradeRevids, suffix \in MappingSuffixes,
          held \in [Repositories -> 0..MaxHeld] :
          upgrade = [pc |-> "lock_write", revid |-> revid, suffix |-> suffix,
                     before |-> held, locks |-> held, acquired |-> {},
                     unheld |-> {}, raising |-> FALSE, planned |-> FALSE,
                     newrevid |-> <<>>]

UpgradeUnchanged ==
    UNCHANGED <<scheme, log, tree, cachedb, call, map, step, callers, saved, ra>>

\* the lock call on repository repo returns; the call goes on at pc
Locked(repo, pc) ==
    upgrade' = [upgrade EXCEPT !.pc = pc, !.locks[repo] = @ + 1,
                               !.acquired = @ \cup {repo}]

\* a statement of the try block raises: control goes to the finally block
Raise == upgrade' = [upgrade EXCEPT !.pc = "unlock", !.raising = TRUE]

\* repo.unlock() in the finally block: without a lock held it raises
\* LockNotHeld, which ends the finally block and the call; otherwise the
\* count goes down and the call goes on at pc
Unlocked(repo, pc) ==
    upgrade' = [upgrade EXCEPT
                  !.unheld = IF repo \in upgrade.acquired THEN @ ELSE @ \cup {repo},
                  !.locks[repo] = IF @ = 0 THEN 0 ELSE @ - 1,
                  !.raising = upgrade.raising \/ upgrade.locks[repo] = 0,
                  !.pc = IF upgrade.locks[repo] = 0 THEN "raised" ELSE pc]

\* repository.lock_write()
LockWrite ==
    /\ upgrade.pc = "lock_write"
    /\ Locked("repository", "lock_read")
    /\ UpgradeUnchanged

LockWriteFails ==
    /\ upgrade.pc = "lock_write"
    /\ Raise
    /\ UpgradeUnchanged

\* svn_repository.lock_read()
LockRead ==
    /\ upgrade.pc = "lock_read"
    /\ Locked("svn_repository", "plan")
    /\ UpgradeUnchanged

LockReadFails ==
    /\ upgrade.pc = "lock_read"
    /\ Raise
    /\ UpgradeUnchanged

\* create_upgrade_plan, which names the upgraded revision
Plan ==
    /\ upgrade.pc = "plan"
    /\ upgrade' = [upgrade EXCEPT
                     !.pc = "rebase", !.planned = TRUE,
                     !.newrevid = create_upgraded_revid(upgrade.revid,
                                      upgrade.suffix, UpgradeSuffix)]
    /\ UpgradeUnchanged

\* create_upgrade_plan raises, UpgradeChangesContent for one
PlanFails ==
    /\ upgrade.pc = "plan"
    /\ Raise
    /\ UpgradeUnchanged

\* rebase(repository, plan, replay); return revid_renames
Rebase ==
    /\ upgrade.pc = "rebase"
    /\ upgrade' = [upgrade EXCEPT !.pc = "unlock"]
    /\ UpgradeUnchanged

RebaseFails ==
    /\ upgrade.pc = "rebase"
    /\ Raise
    /\ UpgradeUnchanged

\* finally: repository.unlock()
UnlockRepository ==
    /\ upgrade.pc = "unlock"
    /\ Unlocked("repository", "unlock_svn")
    /\ UpgradeUnchanged

\* finally: svn_repository.unlock(), then the call returns or raises on
UnlockSvnRepository ==
    /\ upgrade.pc = "unlock_svn"
    /\ Unlocked("svn_repository", IF upgrade.raising THEN "raised" ELSE "returned")
    /\ UpgradeUnchanged

UpgradeNext ==
    \/ LockWrite
    \/ LockWriteFails
    \/ LockRead
    \/ LockReadFails
    \/ Plan
    \/ PlanFails
    \/ Rebase
    \/ RebaseFails
    \/ UnlockRepository
    \/ UnlockSvnRepository

UpgradeSpec == UpgradeInit /\ [][UpgradeNext]_vars

\* C29: unlock is never called on a repository the call has not locked, and
\* when the call has ended, by return or by exception, each lock is held as
\* often as before the call.
LockBalance ==
    /\ upgrade.unheld = {}
    /\ upgrade.pc \in {"returned", "raised"} => upgrade.locks = upgrade.before

\* C30: the upgraded revision id ends with the mapping suffix and the upgrade
\* suffix, holds the two in this order once, and upgrading it again with the
\* same mapping suffix gives the same revision id.
UpgradedRevidIdempotent ==
    upgrade.planned =>
        /\ create_upgraded_revid(upgrade.newrevid, upgrade.suffix, UpgradeSuffix)
              = upgrade.newrevid
        /\ EndsWith(upgrade.newrevid, upgrade.suffix \o UpgradeSuffix)
        /\ Cardinality({i \in 1..Len(upgrade.newrevid) :
                           SubSeq(upgrade.newrevid, i,
                                  i + Len(upgrade.suffix \o UpgradeSuffix) - 1)
                               = upgrade.suffix \o UpgradeSuffix}) = 1
====
